---- MODULE Spec2Model ----
(***************************************************************************)
(* Model of the three Dash dashboards of the repository:                   *)
(*   project4/table_and_figure_app.py       housing table and histogram    *)
(*   project5/real_time_stock_chart.py      candlestick viewer (variant 1) *)
(*   project5/real_time_stock_chart2.py     candlestick viewer (variant 2) *)
(*   project6/gapmider_dashboard_with_Taps.py  Gapminder bar charts + map  *)
(* Each program is its own process: `app` names the one that is running.   *)
(* A figure is a record of what the charting call is handed (the frame it  *)
(* plots, the plotted columns, the title); a title is the sequence of the  *)
(* pieces of its f-string.                                                 *)
(***************************************************************************)
EXTENDS Integers, Sequences, FiniteSets, TLC

VARIABLES
    app,            \* the program that is running
    df,             \* project4: the module-level housing frame
    gapminder_df,   \* project6: the module-level Gapminder frame
    sort_kind,      \* how this build's default sort orders equal keys
    props,          \* input component properties, by component id
    outputs,        \* output component properties, by component id
    pending,        \* callbacks the page load has still to fire
    fetches,        \* network requests issued by yf.download so far
    submissions,    \* update_chart invocations with n_clicks >= 1 so far
    lastCall,       \* the last update_chart: its arguments, what it raised, whether
                    \* it fetched, whether it repeats the ticker and dates before it
    call,           \* direct invocation: the function and its arguments
    outs            \* direct invocation: the results returned so far

vars == <<app, df, gapminder_df, sort_kind, props, outputs, pending, fetches,
          submissions, lastCall, call, outs>>

----------------------------------------------------------------------------
(* Bounds of the model *)

\* Countries of the Gapminder frame (Africa gets all but the last five).
NumCountries == 22
\* Data variants of the static frames (values and ties differ by seed).
NumSeeds == 2
\* Rows of the housing frame.
NumHouses == 3
\* Clicks on the submit button in one session.
MaxClicks == 3
\* Rows of a non-empty price-history response.
MaxRows == 2
\* Invocations of one function on the same arguments.
MaxCalls == 2

(* Program constants *)

\* .head(15)
TopN == 15

Min(a, b) == IF a < b THEN a ELSE b

Range(s) == {s[i] : i \in DOMAIN s}

\* Python's None, for string-valued and for integer-valued arguments.
None == "None"
NoneInt == 0 - 1

----------------------------------------------------------------------------
(* project6: the Gapminder frame *)

Years == <<1952, 1957>>

\* Continent of country c: the frame is ordered by country, the continents
\* interleaved; the last two countries are Oceania's, three are Asia's.
ContinentOf(c) ==
    IF c > NumCountries - 2 THEN "Oceania"
    ELSE IF c \in {1, 4, 7} THEN "Asia"
    ELSE "Africa"

\* plotly.data.gapminder(datetimes=True, ...): one row per country and year,
\* ordered by country then year, the year a timestamp.
RawRow(c, k, seed) ==
    [Country       |-> c,
     Continent     |-> ContinentOf(c),
     Year          |-> [year |-> Years[k], month |-> 1, day |-> 1],
     LifeExpectancy |-> 40 + ((3 * c + 2 * seed + k) % 7),
     Population    |-> (7 * c + 3 * seed + 5 * k) % 11,
     GdpPerCapita  |-> (5 * c + seed * k) % 13,
     IsoAlpha      |-> 100 + c]

gapminder(seed) ==
    [i \in 1..(NumCountries * Len(Years)) |->
        RawRow(((i - 1) \div Len(Years)) + 1, ((i - 1) % Len(Years)) + 1, seed)]

\* gapminder_df["Year"] = gapminder_df["Year"].dt.year
YearToInt(frame) ==
    [i \in DOMAIN frame |-> [frame[i] EXCEPT !.Year = frame[i].Year.year]]

LoadGapminder(seed) == YearToInt(gapminder(seed))

\* Column names of the frame as the builders name them.
Column(r, name) ==
    CASE name = "Population"      -> r.Population
      [] name = "GDP per Capita"  -> r.GdpPerCapita
      [] name = "Life Expectancy" -> r.LifeExpectancy

\* f-string formatting of a year.
YearStr(y) == CASE y = 1952 -> "1952" [] y = 1957 -> "1957" [] OTHER -> "?"

----------------------------------------------------------------------------
(* pandas: boolean-mask selection, sort_values, head *)

\* frame[mask]: the rows whose entry of the boolean mask is true, in frame
\* order, from row i on.
RECURSIVE Filter(_, _, _)
Filter(frame, mask, i) ==
    IF i > Len(frame) THEN <<>>
    ELSE IF mask[i] THEN <<frame[i]>> \o Filter(frame, mask, i + 1)
    ELSE Filter(frame, mask, i + 1)

\* Position at which row r enters the descending run `sorted`: after the rows
\* with a greater key; among equal keys after them when the sort keeps input
\* order ("stable"), before them when it does not ("unstable").
RECURSIVE InsertPos(_, _, _, _, _)
InsertPos(sorted, r, by, kind, i) ==
    IF i > Len(sorted) THEN i
    ELSE IF Column(sorted[i], by) > Column(r, by) THEN InsertPos(sorted, r, by, kind, i + 1)
    ELSE IF Column(sorted[i], by) = Column(r, by) /\ kind = "stable"
         THEN InsertPos(sorted, r, by, kind, i + 1)
    ELSE i

InsertRow(sorted, r, by, kind) ==
    LET p == InsertPos(sorted, r, by, kind, 1)
    IN  SubSeq(sorted, 1, p - 1) \o <<r>> \o SubSeq(sorted, p, Len(sorted))

RECURSIVE SortFrom(_, _, _, _, _)
SortFrom(frame, by, kind, i, acc) ==
    IF i > Len(frame) THEN acc
    ELSE SortFrom(frame, by, kind, i + 1, InsertRow(acc, frame[i], by, kind))

\* sort_values with ascending left at its default (True): the reverse order.
sort_values_ascending(frame, by, kind) ==
    LET s == SortFrom(frame, by, kind, 1, <<>>)
    IN  [i \in DOMAIN s |-> s[Len(s) + 1 - i]]

\* frame.sort_values(by=..., ascending=False), kind left at its default
\* (quicksort), which does not promise the order of equal keys.
sort_values(frame, by, kind) == SortFrom(frame, by, kind, 1, <<>>)

\* frame.head(n)
head(frame, n) == SubSeq(frame, 1, Min(n, Len(frame)))

----------------------------------------------------------------------------
(* project6: chart factory functions *)

GapminderColumns ==
    <<"Country", "Continent", "Year", "Life Expectancy", "Population",
      "GDP per Capita", "ISO Alpha Country Code">>

Cell(r, name) ==
    CASE name = "Country"                -> r.Country
      [] name = "Continent"              -> r.Continent
      [] name = "Year"                   -> r.Year
      [] name = "ISO Alpha Country Code" -> r.IsoAlpha
      [] OTHER                           -> Column(r, name)

\* go.Table(header=columns, cells=values.T): one sequence of values per column.
create_table ==
    [kind   |-> "table",
     header |-> GapminderColumns,
     cells  |-> [j \in DOMAIN GapminderColumns |->
                    [i \in DOMAIN gapminder_df |-> Cell(gapminder_df[i], GapminderColumns[j])]],
     height |-> 700]

\* px.bar(filtered_df, x="Country", y=metric, color="Country", title=...)
Bar(frame, y, title) ==
    [kind |-> "bar", frame |-> frame, x |-> "Country", y |-> y,
     color |-> "Country", title |-> title, height |-> 600]

\* The rows of one continent and year.
OfContinentAndYear(continent, year) ==
    LET mask == [i \in DOMAIN gapminder_df |->
                    gapminder_df[i].Continent = continent /\ gapminder_df[i].Year = year]
    IN  Filter(gapminder_df, mask, 1)

create_population_chart(continent, year) ==
    LET filtered_df == head(sort_values(OfContinentAndYear(continent, year),
                                        "Population", sort_kind), TopN)
    IN  Bar(filtered_df, "Population",
            <<"Country Population for ", continent, " Continent in ", YearStr(year)>>)

create_gdp_chart(continent, year) ==
    LET filtered_df == head(sort_values(OfContinentAndYear(continent, year),
                                        "GDP per Capita", sort_kind), TopN)
    IN  Bar(filtered_df, "GDP per Capita",
            <<"Country GDP per Capita for ", continent, " Continent in ", YearStr(year)>>)

create_life_exp_chart(continent, year) ==
    LET filtered_df == head(sort_values(OfContinentAndYear(continent, year),
                                        "Life Expectancy", sort_kind), TopN)
    IN  Bar(filtered_df, "Life Expectancy",
            <<"Country Life Expectancy for ", continent, " Continent in ", YearStr(year)>>)

\* The rows up to one year (<= in place of ==).
OfYear_upto(year) ==
    LET mask == [i \in DOMAIN gapminder_df |-> gapminder_df[i].Year <= year]
    IN  Filter(gapminder_df, mask, 1)

\* The rows of one year.
OfYear(year) ==
    LET mask == [i \in DOMAIN gapminder_df |-> gapminder_df[i].Year = year]
    IN  Filter(gapminder_df, mask, 1)

create_choropleth_map(variable, year) ==
    [kind |-> "choropleth", frame |-> OfYear(year), color |-> variable,
     locations |-> "ISO Alpha Country Code",
     title |-> <<variable, " Choropleth Map [", YearStr(year), "]">>, height |-> 600]

update_population_chart(continent, year) == create_population_chart(continent, year)

update_gdp_chart(continent, year) == create_gdp_chart(continent, year)

update_life_exp_chart(continent, year) == create_life_exp_chart(continent, year)

update_map(variable, year) == create_choropleth_map(variable, year)

\* continents = gapminder_df["Continent"].unique(); years likewise.
continents == {gapminder_df[i].Continent : i \in DOMAIN gapminder_df}

years == {gapminder_df[i].Year : i \in DOMAIN gapminder_df}

MapVariables == {"Population", "GDP per Capita", "Life Expectancy"}

----------------------------------------------------------------------------
(* project4: the housing frame and its histogram *)

HousingColumns == <<"MedInc", "HouseAge", "MedHouseVal">>

\* pd.read_csv('housing2.csv')
read_csv(seed) ==
    [i \in 1..NumHouses |->
        [MedInc |-> (2 * i + seed) % 5, HouseAge |-> (i * i + seed) % 4,
         MedHouseVal |-> (3 * i + 2 * seed) % 7]]

HousingCell(r, name) ==
    CASE name = "MedInc"      -> r.MedInc
      [] name = "HouseAge"    -> r.HouseAge
      [] name = "MedHouseVal" -> r.MedHouseVal

\* px.histogram(df, x=selected_feature) and its layout update.
update_histogram(selected_feature) ==
    [kind |-> "histogram",
     x |-> [i \in DOMAIN df |-> HousingCell(df[i], selected_feature)],
     title |-> <<"Histogram of ", selected_feature>>,
     xaxis_title |-> selected_feature, yaxis_title |-> "Frequency"]

----------------------------------------------------------------------------
(* project5: the price-history provider (yfinance), a black box *)

OHLC == <<"Open", "High", "Low", "Close">>

ProviderColumns == <<"Open", "High", "Low", "Close", "Volume">>

\* A cell of the price history: row i of the column labelled `label`.
Price(label, i) ==
    CASE label = "Open"  -> 10 + i
      [] label = "High"  -> 20 + i
      [] label = "Low"   -> 5 + i
      [] label = "Close" -> 12 + i
      [] OTHER           -> 1000 * i

\* The provider's column keys without the fields in `missing`: one label per
\* column, or (field, ticker) pairs when the index is layered.
ColumnKeys(missing, multi, ticker) ==
    LET mask == [j \in DOMAIN ProviderColumns |-> ProviderColumns[j] \notin missing]
        kept == Filter(ProviderColumns, mask, 1)
    IN  [j \in DOMAIN kept |-> IF multi THEN <<kept[j], ticker>> ELSE <<kept[j]>>]

\* What yf.download(ticker, start, end, group_by="column") can come back with:
\* an exception, or a frame of nrows rows whose columns and index label are
\* the provider's choice.
Frame(nrows, missing, multi, index_name, ticker) ==
    [raises |-> FALSE, nrows |-> nrows, multi |-> multi,
     columns |-> ColumnKeys(missing, multi, ticker), index_name |-> index_name]

DownloadError == [raises |-> TRUE, error |-> "DownloadError"]

\* The response of an invocation that never asks the provider.
NoResponse == [raises |-> FALSE, nrows |-> 0, multi |-> FALSE, columns |-> <<>>,
               index_name |-> None]

Responses(ticker) ==
    {DownloadError}
    \cup {Frame(n, m, x, ix, ticker) :
            n \in {0, MaxRows}, m \in SUBSET Range(OHLC), x \in BOOLEAN,
            ix \in {"Date", "Datetime"}}

----------------------------------------------------------------------------
(* project5: pandas and Python pieces update_chart uses *)

\* n_clicks compared with 0 (== 0 in place of `not`): None counts as a click.
Falsy_only_zero(n_clicks) == n_clicks = 0

\* The button read as a toggle (n_clicks % 2 == 0): every second click counts
\* as none.
Falsy_toggle(n_clicks) == n_clicks = NoneInt \/ n_clicks % 2 = 0

\* Python truthiness of n_clicks: None and 0 are falsy.
Falsy(n_clicks) == n_clicks = NoneInt \/ n_clicks = 0

\* Emptiness taken from the columns alone (len(df.columns) == 0).
empty_no_columns(frame) == Len(frame.columns) = 0

\* df.empty: an axis of length 0.
empty(frame) == frame.nrows = 0 \/ Len(frame.columns) = 0

\* get_level_values(1): the last label (the ticker) of every key.
get_level_values_last(columns) == [j \in DOMAIN columns |-> <<columns[j][Len(columns[j])]>>]

\* df.columns.get_level_values(0): the first label of every key.
get_level_values(columns) == [j \in DOMAIN columns |-> <<columns[j][1]>>]

\* col in df.columns (single-level columns).
HasColumn(columns, col) == \E j \in DOMAIN columns : columns[j] = <<col>>

\* The first of `required`, from position i, that the columns lack; None if none.
RECURSIVE FirstMissing(_, _, _)
FirstMissing(columns, required, i) ==
    IF i > Len(required) THEN None
    ELSE IF ~HasColumn(columns, required[i]) THEN required[i]
    ELSE FirstMissing(columns, required, i + 1)

\* df.reset_index(): the index becomes the first column, under its label.
reset_index(columns, index_name) == <<(<<index_name>>)>> \o columns

\* df[col] of a frame of nrows rows.
Series(nrows, col) == [i \in 1..nrows |-> Price(col, i)]

\* str.upper()
upper(ticker) ==
    CASE ticker = "msft" -> "MSFT"
      [] ticker = "aapl" -> "AAPL"
      [] OTHER           -> ticker

\* go.Figure()
EmptyLayout ==
    [title |-> <<>>, template |-> None, xaxis_title |-> None, yaxis_title |-> None,
     xaxis_rangeslider_visible |-> None]

EmptyFigure == [data |-> <<>>, layout |-> EmptyLayout]

\* A trace added to a figure kept between invocations: the series of the
\* earlier fetches stay in it.
Candlestick_accumulated(nrows, name) ==
    [type |-> "candlestick", x |-> [i \in 1..(nrows * (fetches + 1)) |-> i],
     open |-> Series(nrows, "Open"), high |-> Series(nrows, "High"),
     low |-> Series(nrows, "Low"), close |-> Series(nrows, "Close"), name |-> name]

Candlestick(nrows, name) ==
    [type |-> "candlestick", x |-> [i \in 1..nrows |-> i],
     open |-> Series(nrows, "Open"), high |-> Series(nrows, "High"),
     low |-> Series(nrows, "Low"), close |-> Series(nrows, "Close"), name |-> name]

\* What an invocation of update_chart comes to: the two outputs it returns,
\* or the exception it lets through; and whether it asked the provider.
Return(figure, style, fetched) ==
    [raised |-> None, figure |-> figure, style |-> style, fetched |-> fetched]

Raise(exception, fetched) ==
    [raised |-> exception, figure |-> EmptyFigure, style |-> [visibility |-> None],
     fetched |-> fetched]

----------------------------------------------------------------------------
(* project5/real_time_stock_chart.py *)

update_chart1(n_clicks, ticker, start_date, end_date, resp) ==
    IF Falsy(n_clicks)
    THEN Return(EmptyFigure, [visibility |-> "hidden"], FALSE)
    ELSE IF resp.raises THEN Raise(resp.error, TRUE)
    ELSE IF empty(resp)
    THEN Return([data |-> <<>>,
                 layout |-> [EmptyLayout EXCEPT
                    !.title = <<"No data returned for this ticker/date range">>,
                    !.template = "plotly_dark", !.xaxis_title = "Date",
                    !.yaxis_title = "Price (USD)"]],
                [visibility |-> "visible"], TRUE)
    ELSE LET columns == IF resp.multi THEN get_level_values(resp.columns)
                        ELSE resp.columns
             col == FirstMissing(columns, OHLC, 1)
         IN  IF col # None
             THEN Return([data |-> <<>>,
                          layout |-> [EmptyLayout EXCEPT
                             !.title = <<"Missing '", col, "' data for ", ticker>>,
                             !.template = "plotly_dark", !.xaxis_title = "Date",
                             !.yaxis_title = "Price (USD)"]],
                         [visibility |-> "visible"], TRUE)
             ELSE IF ~HasColumn(reset_index(columns, resp.index_name), "Date")
             THEN Raise("KeyError", TRUE)
             ELSE Return([data |-> <<Candlestick(resp.nrows, ticker)>>,
                          layout |-> [EmptyLayout EXCEPT
                             !.title = <<"Candlestick Chart of ", ticker>>,
                             !.xaxis_title = "Date", !.yaxis_title = "Price (USD)",
                             !.xaxis_rangeslider_visible = FALSE,
                             !.template = "plotly_dark"]],
                         [visibility |-> "visible"], TRUE)

(* project5/real_time_stock_chart2.py *)

update_chart2(n_clicks, ticker, start_date, end_date, resp) ==
    IF Falsy(n_clicks)
    THEN Return(EmptyFigure, [flex |-> 1, visibility |-> "hidden"], FALSE)
    ELSE IF resp.raises THEN Raise(resp.error, TRUE)
    ELSE IF empty(resp)
    THEN Return([data |-> <<>>,
                 layout |-> [EmptyLayout EXCEPT
                    !.title = <<"No data returned for this ticker or date range.">>,
                    !.template = "plotly_dark"]],
                [flex |-> 1, visibility |-> "visible"], TRUE)
    ELSE LET columns == IF resp.multi THEN get_level_values(resp.columns)
                        ELSE resp.columns
             col == FirstMissing(columns, OHLC, 1)
         IN  IF col # None
             THEN Return([data |-> <<>>,
                          layout |-> [EmptyLayout EXCEPT
                             !.title = <<"Missing '", col, "' data for ", ticker, ".">>,
                             !.template = "plotly_dark"]],
                         [flex |-> 1, visibility |-> "visible"], TRUE)
             ELSE IF ~HasColumn(reset_index(columns, resp.index_name), "Date")
             THEN Raise("KeyError", TRUE)
             ELSE IF ticker = None THEN Raise("AttributeError", TRUE)
             ELSE Return([data |-> <<Candlestick(resp.nrows, upper(ticker))>>,
                          layout |-> [EmptyLayout EXCEPT
                             !.title = <<"Candlestick Chart of ", upper(ticker)>>,
                             !.xaxis_title = "Date", !.yaxis_title = "Price (USD)",
                             !.xaxis_rangeslider_visible = FALSE,
                             !.template = "plotly_dark"]],
                         [flex |-> 1, visibility |-> "visible"], TRUE)

\* update_chart with the last response kept: a submission of the ticker and
\* dates of the submission before it is answered without asking the provider.
update_chart_cached(a, n_clicks, ticker, start_date, end_date, resp) ==
    IF /\ ~Falsy(n_clicks) /\ lastCall.n_clicks >= 1 /\ lastCall.raised = None
       /\ lastCall.ticker = ticker /\ lastCall.start_date = start_date
       /\ lastCall.end_date = end_date
    THEN Return(outputs["candlestick-chart"], outputs["chart-container"], FALSE)
    ELSE IF a = "stock1" THEN update_chart1(n_clicks, ticker, start_date, end_date, resp)
    ELSE update_chart2(n_clicks, ticker, start_date, end_date, resp)

\* The update_chart of the program `a`.
update_chart(a, n_clicks, ticker, start_date, end_date, resp) ==
    IF a = "stock1" THEN update_chart1(n_clicks, ticker, start_date, end_date, resp)
    ELSE update_chart2(n_clicks, ticker, start_date, end_date, resp)

----------------------------------------------------------------------------
(* The layouts and the callback registrations *)

Apps == {"housing", "stock1", "stock2", "gapminder"}

StockApps == {"stock1", "stock2"}

\* dcc.Graph(id=...) declared without a figure.
Unset == [unset |-> TRUE]

\* Input properties as the layout declares them.
Layout(a) ==
    CASE a = "housing" -> [id \in {"feature-dropdown"} |-> HousingColumns[1]]
      [] a = "stock1" ->
            ("submit-button" :> 0) @@ ("ticker-input" :> "AAPL")
            @@ ("start-date-picker" :> "2023-01-01") @@ ("end-date-picker" :> "2025-01-01")
      [] a = "stock2" ->
            ("submit-button" :> 0) @@ ("ticker-input" :> "AAPL")
            @@ ("start-date-picker" :> "2025-01-01") @@ ("end-date-picker" :> "2025-05-15")
      [] a = "gapminder" ->
            ("cont_pop" :> "Asia") @@ ("year_pop" :> 1952)
            @@ ("cont_gdp" :> "Asia") @@ ("year_gdp" :> 1952)
            @@ ("cont_life_exp" :> "Asia") @@ ("year_life_exp" :> 1952)
            @@ ("var_map" :> "Life Expectancy") @@ ("year_map" :> 1952)

\* Output properties as the layout declares them.
LayoutOutputs(a) ==
    CASE a = "housing" -> [id \in {"histogram"} |-> Unset]
      [] a = "stock1" ->
            ("candlestick-chart" :> Unset) @@ ("chart-container" :> [visibility |-> "hidden"])
      [] a = "stock2" ->
            ("candlestick-chart" :> Unset)
            @@ ("chart-container" :>
                    [flex |-> 1, visibility |-> "hidden", paddingRight |-> "20px"])
      [] a = "gapminder" ->
            ("dataset" :> create_table) @@ ("population" :> Unset) @@ ("gdp" :> Unset)
            @@ ("life_expectancy" :> Unset) @@ ("choropleth_map" :> Unset)

\* The callbacks of a program, each named by the output (the first output) it
\* writes, with its Input and its State components.
Callbacks(a) ==
    CASE a = "housing" -> {"histogram"}
      [] a \in StockApps -> {"candlestick-chart"}
      [] a = "gapminder" -> {"population", "gdp", "life_expectancy", "choropleth_map"}

Inputs(b) ==
    CASE b = "histogram"         -> {"feature-dropdown"}
      [] b = "candlestick-chart" -> {"submit-button"}
      [] b = "population"        -> {"cont_pop", "year_pop"}
      [] b = "gdp"               -> {"cont_gdp", "year_gdp"}
      [] b = "life_expectancy"   -> {"cont_life_exp", "year_life_exp"}
      [] b = "choropleth_map"    -> {"var_map", "year_map"}

States(b) ==
    IF b = "candlestick-chart"
    THEN {"ticker-input", "start-date-picker", "end-date-picker"}
    ELSE {}

\* The GDP callback registered with the population graph as a second Output.
Outputs_shared(b) ==
    CASE b = "candlestick-chart" -> {"candlestick-chart", "chart-container"}
      [] b = "gdp"               -> {"gdp", "population"}
      [] OTHER                   -> {b}

\* The Output components of a callback: the figure of its graph and, for
\* update_chart, the style of the chart's container as well.
Outputs(b) ==
    IF b = "candlestick-chart" THEN {"candlestick-chart", "chart-container"}
    ELSE {b}

\* The values a user can give a component: a dropdown's options (none of the
\* modelled sessions clears a dropdown), two tickers, two dates per picker,
\* one more click.
Options(id) ==
    CASE id = "feature-dropdown" -> Range(HousingColumns)
      [] id \in {"cont_pop", "cont_gdp", "cont_life_exp"} -> continents
      [] id \in {"year_pop", "year_gdp", "year_life_exp", "year_map"} -> years
      [] id = "var_map" -> MapVariables
      [] id = "ticker-input" -> {"AAPL", "msft"}
      [] id = "start-date-picker" -> {Layout(app)[id], "2024-06-03"}
      [] id = "end-date-picker" -> {Layout(app)[id], "2024-06-28"}
      [] id = "submit-button" -> {props[id] + 1}

\* The callbacks with the GDP tab's year handed to the population builder.
Builder_crossed(b, p) ==
    CASE b = "histogram"       -> update_histogram(p["feature-dropdown"])
      [] b = "population"      -> update_population_chart(p["cont_pop"], p["year_gdp"])
      [] b = "gdp"             -> update_gdp_chart(p["cont_gdp"], p["year_gdp"])
      [] b = "life_expectancy" -> update_life_exp_chart(p["cont_life_exp"], p["year_life_exp"])
      [] b = "choropleth_map"  -> update_map(p["var_map"], p["year_map"])

\* The builder a callback runs on the property values p (provider-free callbacks).
Builder(b, p) ==
    CASE b = "histogram"       -> update_histogram(p["feature-dropdown"])
      [] b = "population"      -> update_population_chart(p["cont_pop"], p["year_pop"])
      [] b = "gdp"             -> update_gdp_chart(p["cont_gdp"], p["year_gdp"])
      [] b = "life_expectancy" -> update_life_exp_chart(p["cont_life_exp"], p["year_life_exp"])
      [] b = "choropleth_map"  -> update_map(p["var_map"], p["year_map"])

NoCall == [n_clicks |-> NoneInt, ticker |-> None, start_date |-> None,
           end_date |-> None, raised |-> None, fetched |-> FALSE, repeat |-> FALSE]

----------------------------------------------------------------------------
(* The session of one program *)

Init ==
    /\ app \in Apps
    /\ \E seed \in 1..NumSeeds :
          /\ df = IF app = "housing" THEN read_csv(seed) ELSE <<>>
          /\ gapminder_df = IF app = "gapminder" THEN LoadGapminder(seed) ELSE <<>>
    /\ sort_kind \in IF app = "gapminder" THEN {"stable", "unstable"} ELSE {"stable"}
    /\ props = Layout(app)
    /\ outputs = LayoutOutputs(app)
    /\ pending = Callbacks(app)
    /\ fetches = 0
    /\ submissions = 0
    /\ lastCall = NoCall
    /\ call = <<>>
    /\ outs = <<>>

\* The population callback declaring the frame global and binding its
\* selection to it (global gapminder_df; gapminder_df = gapminder_df[...]).
FramesAfter_rebound(b, p) ==
    IF b = "population"
    THEN <<df, OfContinentAndYear(p["cont_pop"], p["year_pop"])>>
    ELSE <<df, gapminder_df>>

\* The module-level frames (housing, Gapminder) once callback b has run on p:
\* every callback binds what it selects, sorts and cuts to a name of its own
\* (filtered_df; update_chart's df is the response), no operation is in place.
FramesAfter(b, p) == <<df, gapminder_df>>

\* Dash runs update_chart on the property values p, the provider answering
\* resp: both outputs are replaced by what it returns, or it raises and they
\* are left as they were.
RunUpdateChart(p, resp) ==
    LET r == update_chart(app, p["submit-button"], p["ticker-input"],
                          p["start-date-picker"], p["end-date-picker"], resp)
    IN  /\ outputs' = IF r.raised = None
                      THEN [outputs EXCEPT !["candlestick-chart"] = r.figure,
                                           !["chart-container"] = r.style]
                      ELSE outputs
        /\ fetches' = fetches + (IF r.fetched THEN 1 ELSE 0)
        /\ submissions' = submissions + (IF p["submit-button"] >= 1 THEN 1 ELSE 0)
        /\ lastCall' = [n_clicks |-> p["submit-button"],
                        ticker |-> p["ticker-input"],
                        start_date |-> p["start-date-picker"],
                        end_date |-> p["end-date-picker"],
                        raised |-> r.raised, fetched |-> r.fetched,
                        repeat |-> /\ lastCall.n_clicks >= 1
                                   /\ lastCall.ticker = p["ticker-input"]
                                   /\ lastCall.start_date = p["start-date-picker"]
                                   /\ lastCall.end_date = p["end-date-picker"]]

\* Dash runs callback b on the property values p: a provider-free callback
\* replaces its output by the builder's figure; update_chart asks the provider
\* (when it gets that far).
Dispatch(b, p) ==
    /\ df' = FramesAfter(b, p)[1]
    /\ gapminder_df' = FramesAfter(b, p)[2]
    /\ IF b = "candlestick-chart"
       THEN \E resp \in (IF Falsy(p["submit-button"]) THEN {NoResponse}
                         ELSE Responses(p["ticker-input"])) :
               RunUpdateChart(p, resp)
       ELSE /\ outputs' = [id \in DOMAIN outputs |->
                               IF id \in Outputs(b) THEN Builder(b, p) ELSE outputs[id]]
            /\ UNCHANGED <<fetches, submissions, lastCall>>

\* Page load: every callback is fired once with the layout's values.
PageLoad(b) ==
    /\ b \in pending
    /\ pending' = pending \ {b}
    /\ Dispatch(b, props)
    /\ UNCHANGED <<app, sort_kind, props, call, outs>>

\* The user gives an Input component another value (a click on the submit
\* button raises n_clicks by one): its callback runs on the current values of
\* its Inputs and States.
ChangeInput(b, id, v) ==
    /\ b \in Callbacks(app) \ pending
    /\ id \in Inputs(b)
    /\ v \in Options(id) \ {props[id]}
    /\ id = "submit-button" => v <= MaxClicks
    /\ props' = [props EXCEPT ![id] = v]
    /\ Dispatch(b, props')
    /\ UNCHANGED <<app, sort_kind, pending, call, outs>>

\* The user gives a State component another value: no callback runs.
ChangeState(b, id, v) ==
    /\ b \in Callbacks(app) \ pending
    /\ id \in States(b)
    /\ v \in Options(id) \ {props[id]}
    /\ props' = [props EXCEPT ![id] = v]
    /\ UNCHANGED <<app, df, gapminder_df, sort_kind, outputs, pending, fetches,
                   submissions, lastCall, call, outs>>

AllCallbacks == UNION {Callbacks(a) : a \in Apps}

Next ==
    \/ \E b \in AllCallbacks : PageLoad(b)
    \/ \E b \in Callbacks(app) : \E id \in Inputs(b) :
          \E v \in Options(id) : ChangeInput(b, id, v)
    \/ \E b \in Callbacks(app) : \E id \in States(b) :
          \E v \in Options(id) : ChangeState(b, id, v)

Spec == Init /\ [][Next]_vars

----------------------------------------------------------------------------
(* Direct invocation: a caller applies one function of the repository to     *)
(* arguments of its choice, MaxCalls times over, in a process that has       *)
(* loaded the static frames.  For update_chart the arguments come with the   *)
(* response the provider gives to that submission.                           *)

BarBuilders == {"create_population_chart", "create_gdp_chart", "create_life_exp_chart"}

BuilderCalls ==
    {[fn |-> "update_histogram", selected_feature |-> f] : f \in Range(HousingColumns)}
    \cup {[fn |-> "create_table"]}
    \cup {[fn |-> f, continent |-> c, year |-> y] :
            f \in BarBuilders, c \in {"Asia", "Africa", "Oceania", "Europe"},
            y \in Range(Years)}
    \cup {[fn |-> "create_choropleth_map", variable |-> v, year |-> y] :
            v \in MapVariables, y \in Range(Years)}

UpdateChartCalls ==
    UNION {{[fn |-> f, n_clicks |-> n, ticker |-> t, start_date |-> s,
             end_date |-> "2025-01-01", resp |-> resp] :
                f \in {"update_chart1", "update_chart2"}, n \in {NoneInt, 0, 1, MaxClicks},
                s \in {None, "2023-01-01"}, resp \in Responses(t)} :
           t \in {None, "AAPL", "msft"}}

InitDirect ==
    /\ app = "direct"
    /\ props = <<>>
    /\ outputs = <<>>
    /\ pending = {}
    /\ fetches = 0
    /\ submissions = 0
    /\ lastCall = NoCall
    /\ outs = <<>>
    /\ \/ /\ call \in BuilderCalls
          /\ \E seed \in 1..NumSeeds :
                /\ df = read_csv(seed)
                /\ gapminder_df = LoadGapminder(seed)
          /\ sort_kind \in {"stable", "unstable"}
       \/ /\ call \in UpdateChartCalls
          /\ df = <<>>
          /\ gapminder_df = <<>>
          /\ sort_kind = "stable"

\* The figure a provider-free function returns for the call c.
Apply(c) ==
    CASE c.fn = "update_histogram"        -> update_histogram(c.selected_feature)
      [] c.fn = "create_table"            -> create_table
      [] c.fn = "create_population_chart" -> create_population_chart(c.continent, c.year)
      [] c.fn = "create_gdp_chart"        -> create_gdp_chart(c.continent, c.year)
      [] c.fn = "create_life_exp_chart"   -> create_life_exp_chart(c.continent, c.year)
      [] c.fn = "create_choropleth_map"   -> create_choropleth_map(c.variable, c.year)

\* What update_chart comes to for the call c.
ApplyUpdateChart(c) ==
    IF c.fn = "update_chart1"
    THEN update_chart1(c.n_clicks, c.ticker, c.start_date, c.end_date, c.resp)
    ELSE update_chart2(c.n_clicks, c.ticker, c.start_date, c.end_date, c.resp)

InvokeBuilder ==
    /\ call \in BuilderCalls
    /\ Len(outs) < MaxCalls
    /\ outs' = Append(outs, Apply(call))
    /\ UNCHANGED <<app, df, gapminder_df, sort_kind, props, outputs, pending, fetches,
                   submissions, lastCall, call>>

InvokeUpdateChart ==
    /\ call \in UpdateChartCalls
    /\ Len(outs) < MaxCalls
    /\ LET r == ApplyUpdateChart(call)
       IN  /\ outs' = Append(outs, r)
           /\ fetches' = fetches + (IF r.fetched THEN 1 ELSE 0)
    /\ submissions' = submissions + (IF call.n_clicks >= 1 THEN 1 ELSE 0)
    /\ UNCHANGED <<app, df, gapminder_df, sort_kind, props, outputs, pending,
                   lastCall, call>>

NextDirect == InvokeBuilder \/ InvokeUpdateChart

SpecDirect == InitDirect /\ [][NextDirect]_vars

----------------------------------------------------------------------------
(* Claims about the Gapminder builders, checked in the session (Spec) *)

BarOutputs == {"population", "gdp", "life_expectancy"}

MetricOf(b) ==
    CASE b = "population"      -> "Population"
      [] b = "gdp"             -> "GDP per Capita"
      [] b = "life_expectancy" -> "Life Expectancy"

ContinentInput(b) ==
    CASE b = "population" -> "cont_pop" [] b = "gdp" -> "cont_gdp"
      [] b = "life_expectancy" -> "cont_life_exp"

YearInput(b) ==
    CASE b = "population" -> "year_pop" [] b = "gdp" -> "year_gdp"
      [] b = "life_expectancy" -> "year_life_exp"

\* C1: every bar chart a builder has produced plots at most 15 rows, in
\* descending order of the builder's own metric, and every plotted row is of
\* the requested continent and the requested year.
C1_TopFifteenSortedAndFiltered ==
    app = "gapminder" =>
        \A b \in BarOutputs \ pending :
            LET fig == outputs[b]
                rows == fig.frame
            IN  /\ fig.kind = "bar"
                /\ fig.y = MetricOf(b)
                /\ Len(rows) <= 15
                /\ \A i \in DOMAIN rows : \A j \in DOMAIN rows :
                      i < j => Column(rows[i], MetricOf(b)) >= Column(rows[j], MetricOf(b))
                /\ \A i \in DOMAIN rows :
                      /\ rows[i].Continent = props[ContinentInput(b)]
                      /\ rows[i].Year = props[YearInput(b)]

\* A continent with more than 15 countries has been requested: the chart
\* holds exactly 15 rows, not all of one value.
C1_Witness ==
    /\ app = "gapminder"
    /\ "gdp" \notin pending
    /\ props["cont_gdp"] = "Africa"
    /\ props["year_gdp"] = 1957
    /\ Len(outputs["gdp"].frame) = 15
    /\ \E i \in 1..14 :
          outputs["gdp"].frame[i].GdpPerCapita > outputs["gdp"].frame[i + 1].GdpPerCapita
    /\ Cardinality({i \in DOMAIN gapminder_df :
                       gapminder_df[i].Continent = "Africa"
                       /\ gapminder_df[i].Year = 1957}) > 15

\* C5: the choropleth map plots exactly the rows of the frame whose Year is
\* the requested year: no row of another year, and every row of that year,
\* once each, coloured by the requested variable.
C5_ChoroplethOnlyRequestedYear ==
    (app = "gapminder" /\ "choropleth_map" \notin pending) =>
        LET fig == outputs["choropleth_map"]
            rows == fig.frame
            ofYear == {i \in DOMAIN gapminder_df :
                          gapminder_df[i].Year = props["year_map"]}
        IN  /\ fig.kind = "choropleth"
            /\ fig.color = props["var_map"]
            /\ \A k \in DOMAIN rows : rows[k].Year = props["year_map"]
            /\ \A i \in ofYear : \E k \in DOMAIN rows : rows[k] = gapminder_df[i]
            /\ Len(rows) = Cardinality(ofYear)

\* The map of the later year has been drawn for another variable than the
\* layout's: it holds one row per country although the frame holds rows of
\* an earlier year too.
C5_Witness ==
    /\ app = "gapminder"
    /\ "choropleth_map" \notin pending
    /\ props["year_map"] = 1957
    /\ props["var_map"] = "Population"
    /\ Len(outputs["choropleth_map"].frame) = NumCountries
    /\ \E i \in DOMAIN gapminder_df : gapminder_df[i].Year < 1957

----------------------------------------------------------------------------
(* Claims about update_chart as a function of its arguments and of the      *)
(* provider's response, checked under direct invocation (SpecDirect)        *)

IsUpdateChartCall == call \in UpdateChartCalls

\* The titles the two variants give a chart of an empty response.
EmptyResultMessages ==
    {"No data returned for this ticker/date range",
     "No data returned for this ticker or date range."}

\* The required fields that no column of the response is labelled with
\* (by its first label).
MissingFields(resp) ==
    {f \in Range(OHLC) : \A j \in DOMAIN resp.columns : resp.columns[j][1] # f}

\* The required fields a title names.
NamedFields(title) == Range(title) \cap Range(OHLC)

\* C2: a submission (n_clicks >= 1) that the provider answers with zero rows
\* returns a chart with no series, a non-empty title holding the empty-result
\* message, and the container visible.
C2_EmptyResponseGivesTitledEmptyChart ==
    (IsUpdateChartCall /\ call.n_clicks >= 1 /\ ~call.resp.raises /\ call.resp.nrows = 0) =>
        \A k \in DOMAIN outs :
            /\ outs[k].raised = None
            /\ outs[k].figure.data = <<>>
            /\ outs[k].figure.layout.title # <<>>
            /\ \E t \in DOMAIN outs[k].figure.layout.title :
                  outs[k].figure.layout.title[t] \in EmptyResultMessages
            /\ outs[k].style.visibility = "visible"

\* A submission has been answered with a frame of zero rows that has all its
\* columns, and update_chart has returned.
C2_Witness ==
    /\ IsUpdateChartCall
    /\ call.n_clicks = 1
    /\ ~call.resp.raises
    /\ call.resp.nrows = 0
    /\ Len(call.resp.columns) = Len(ProviderColumns)
    /\ Len(outs) >= 1

\* C3: with n_clicks 0 or unset, whatever the ticker, the dates and the
\* provider's state, update_chart returns the empty figure and a hidden
\* container, and issues no network request.
C3_InitialLoadHiddenAndNoFetch ==
    (IsUpdateChartCall /\ call.n_clicks \in {0, NoneInt}) =>
        /\ fetches = 0
        /\ \A k \in DOMAIN outs :
              /\ outs[k].raised = None
              /\ outs[k].figure = EmptyFigure
              /\ outs[k].style.visibility = "hidden"
              /\ ~outs[k].fetched

\* update_chart has been invoked with n_clicks unset, no ticker, and a
\* provider that would fail.
C3_Witness ==
    /\ IsUpdateChartCall
    /\ call.n_clicks = NoneInt
    /\ call.ticker = None
    /\ call.resp.raises
    /\ Len(outs) >= 1

\* C4: a submission answered with a non-empty frame that lacks one or more
\* of Open, High, Low, Close returns a chart with no series and a visible
\* container, whose title names exactly one field, a missing one (so the
\* missing one when exactly one is missing).
C4_MissingColumnNamedInTitle ==
    (IsUpdateChartCall /\ call.n_clicks >= 1 /\ ~call.resp.raises
        /\ call.resp.nrows > 0 /\ MissingFields(call.resp) # {}) =>
        \A k \in DOMAIN outs :
            /\ outs[k].raised = None
            /\ outs[k].figure.data = <<>>
            /\ outs[k].style.visibility = "visible"
            /\ Cardinality(NamedFields(outs[k].figure.layout.title)) = 1
            /\ NamedFields(outs[k].figure.layout.title) \subseteq MissingFields(call.resp)

\* A layered frame that lacks exactly Low has been answered, and the title
\* names Low.
C4_Witness ==
    /\ IsUpdateChartCall
    /\ call.n_clicks >= 1
    /\ ~call.resp.raises
    /\ call.resp.nrows > 0
    /\ call.resp.multi
    /\ MissingFields(call.resp) = {"Low"}
    /\ Len(outs) >= 1
    /\ NamedFields(outs[1].figure.layout.title) = {"Low"}

C7_NeverRaises ==
    (IsUpdateChartCall /\ ~call.resp.raises) =>
        \A k \in DOMAIN outs : outs[k].raised = None

----------------------------------------------------------------------------
(* Claims about the sessions, checked under Spec *)

Figure == outputs["candlestick-chart"]

Container == outputs["chart-container"]

\* The states of the candlestick viewer as its outputs show them.
Idle == Container.visibility = "hidden" /\ fetches = 0

Rendered ==
    /\ Container.visibility = "visible"
    /\ Len(Figure.data) = 1
    /\ Figure.data[1].type = "candlestick"

Failed ==
    /\ Container.visibility = "visible"
    /\ Figure.data = <<>>
    /\ \/ Range(Figure.layout.title) \cap EmptyResultMessages # {}
       \/ NamedFields(Figure.layout.title) # {}

\* C8 (as claimed): the viewer starts Idle (container hidden, no fetch); after
\* every submission it is in exactly one of Rendered and Failed, the
\* container visible.
C8_SubmissionEndsRenderedOrFailed ==
    (app \in StockApps /\ pending = {}) =>
        /\ props["submit-button"] = 0 => Idle
        /\ props["submit-button"] >= 1 =>
              /\ Container.visibility = "visible"
              /\ Rendered \/ Failed
              /\ ~(Rendered /\ Failed)

\* The figure a provider-free callback's builder gives for the current values
\* of the callback's own Inputs.
FigureOfCurrentInputs(b) ==
    CASE b = "histogram"       -> update_histogram(props["feature-dropdown"])
      [] b = "population"      ->
            create_population_chart(props["cont_pop"], props["year_pop"])
      [] b = "gdp"             -> create_gdp_chart(props["cont_gdp"], props["year_gdp"])
      [] b = "life_expectancy" ->
            create_life_exp_chart(props["cont_life_exp"], props["year_life_exp"])
      [] b = "choropleth_map"  -> create_choropleth_map(props["var_map"], props["year_map"])

\* The candlestick outputs are what update_chart returns for these arguments
\* and some response of the provider.
CandlestickOutputsOf(n_clicks, ticker, start_date, end_date) ==
    \E resp \in (IF n_clicks >= 1 THEN Responses(ticker) ELSE {NoResponse}) :
        LET r == IF app = "stock1"
                 THEN update_chart1(n_clicks, ticker, start_date, end_date, resp)
                 ELSE update_chart2(n_clicks, ticker, start_date, end_date, resp)
        IN  r.raised = None /\ Figure = r.figure /\ Container = r.style

ProviderFreeOutputsCurrent ==
    \A b \in (Callbacks(app) \ pending) \ {"candlestick-chart"} :
        outputs[b] = FigureOfCurrentInputs(b)

C10_OneFetchPerSubmission ==
    app \in StockApps =>
        /\ fetches = submissions
        /\ pending = {} => fetches = props["submit-button"]
        /\ lastCall.n_clicks >= 1 => lastCall.fetched
        /\ lastCall.n_clicks = 0 => ~lastCall.fetched

\* The second submission repeated the ticker and dates of the first, and two
\* requests have been issued.
C10_Witness ==
    /\ app \in StockApps
    /\ lastCall.n_clicks = 2
    /\ lastCall.repeat
    /\ lastCall.fetched
    /\ fetches = 2

----------------------------------------------------------------------------
(* Independence of the bindings *)

\* No Output component of a callback is an Input or a State of a callback of
\* the same program, and no two callbacks write the same component.
NoChainedReactivity ==
    \A a \in Apps : \A b \in Callbacks(a) : \A c \in Callbacks(a) :
        /\ Outputs(b) \cap (Inputs(c) \cup States(c)) = {}
        /\ b # c => Outputs(b) \cap Outputs(c) = {}

\* The callbacks whose Output components a step has given another value.
Written == {b \in Callbacks(app) : \E o \in Outputs(b) : outputs'[o] # outputs[o]}

\* A step of the session: it writes the outputs of one callback at most, and
\* it leaves the outputs of every loaded callback none of whose Inputs it
\* has changed as they were.
IndependentStep ==
    /\ NoChainedReactivity
    /\ Cardinality(Written) <= 1
    /\ \A b \in Callbacks(app) \ pending :
          (\A id \in Inputs(b) : props'[id] = props[id]) =>
              \A o \in Outputs(b) : outputs'[o] = outputs[o]

\* C11: the bindings are independent: no output of a binding is an input or
\* a state of any binding, an invocation of one binding invokes no other (a
\* step writes the outputs of one binding at most), and a change to the
\* inputs of one binding leaves the output of every other binding unchanged.
C11_BindingsIndependent == [][IndependentStep]_vars

\* The GDP tab has been switched to another continent and year while the
\* population tab still shows the chart of the layout's selection.
C11_Witness ==
    /\ app = "gapminder"
    /\ pending = {}
    /\ props["cont_gdp"] = "Africa"
    /\ props["year_gdp"] = 1957
    /\ props["cont_pop"] = "Asia"
    /\ props["year_pop"] = 1952
    /\ Len(outputs["gdp"].frame) = TopN
    /\ Len(outputs["population"].frame) = 3
    /\ outputs["population"].y = "Population"

----------------------------------------------------------------------------
(* Order of equal keys in the ranking *)

\* The position of a row in the module-level frame (a country has one row
\* per year, so no two rows are equal).
PositionOf(r) == CHOOSE i \in DOMAIN gapminder_df : gapminder_df[i] = r

\* C12 (as claimed): in every bar chart, rows of equal metric value appear in
\* the order they have in the dataset, and a row left out by the 15-row cut
\* has a smaller metric value than every row kept, or an equal one and a
\* later place in the dataset.
C12_TiesInDatasetOrder ==
    app = "gapminder" =>
        \A b \in BarOutputs \ pending :
            LET rows == outputs[b].frame
                m == MetricOf(b)
                selected == OfContinentAndYear(props[ContinentInput(b)], props[YearInput(b)])
            IN  /\ \A i \in DOMAIN rows : \A j \in DOMAIN rows :
                      (i < j /\ Column(rows[i], m) = Column(rows[j], m)) =>
                          PositionOf(rows[i]) < PositionOf(rows[j])
                /\ \A k \in DOMAIN selected :
                      selected[k] \notin Range(rows) =>
                          \A i \in DOMAIN rows :
                              \/ Column(rows[i], m) > Column(selected[k], m)
                              \/ /\ Column(rows[i], m) = Column(selected[k], m)
                                 /\ PositionOf(rows[i]) < PositionOf(selected[k])

----------------------------------------------------------------------------
(* The static frames *)

\* The frames are as the module load left them: the housing frame as read,
\* the Gapminder frame with its years made integers.
FramesAsLoaded ==
    \E seed \in 1..NumSeeds :
        /\ app = "housing" => df = read_csv(seed)
        /\ app = "gapminder" => gapminder_df = LoadGapminder(seed)

\* C13: the static frames are loaded once and never mutated: no step of a
\* session, whatever callbacks have run before it, changes a row or a column
\* of the housing frame or of the Gapminder frame, which start as the load
\* made them.
C13_DatasetNeverMutated ==
    FramesAsLoaded /\ [][df' = df /\ gapminder_df' = gapminder_df]_vars

\* Every Gapminder callback has run, the population and the map callbacks
\* again on another selection (a filtered, sorted and cut chart is on
\* display), and the frame still holds a row per country and year, the first
\* countries first.
C13_Witness ==
    /\ app = "gapminder"
    /\ pending = {}
    /\ props["cont_pop"] = "Africa"
    /\ props["year_pop"] = 1957
    /\ props["year_map"] = 1957
    /\ Len(outputs["population"].frame) = TopN
    /\ outputs["population"].frame[1] # gapminder_df[1]
    /\ Len(outputs["choropleth_map"].frame) = NumCountries
    /\ Len(gapminder_df) = NumCountries * Len(Years)
    /\ gapminder_df[1].Country = 1
    /\ gapminder_df[1].Year = 1952

----------------------------------------------------------------------------
(* Sequences of submissions to a candlestick viewer: each submission is kept *)
(* with the response the provider gave it                                    *)

InitSubmissions == Init /\ app \in StockApps

\* A submission: the user fills in the form (the ticker and the end date; the
\* start date is left as it is) and clicks Submit; update_chart runs on the
\* form's values, the provider answering resp.
Submit(ticker, end_date, resp) ==
    /\ pending = {}
    /\ props["submit-button"] < MaxClicks
    /\ props' = [props EXCEPT !["submit-button"] = @ + 1,
                              !["ticker-input"] = ticker,
                              !["end-date-picker"] = end_date]
    /\ RunUpdateChart(props', resp)
    /\ call' = [fn |-> "update_chart", n_clicks |-> props'["submit-button"],
                ticker |-> ticker, start_date |-> props["start-date-picker"],
                end_date |-> end_date,
                resp |-> resp]
    /\ UNCHANGED <<app, df, gapminder_df, sort_kind, pending, outs>>

NextSubmissions ==
    \/ PageLoad("candlestick-chart")
    \/ \E ticker \in Options("ticker-input") :
          \E end_date \in Options("end-date-picker") :
             \E resp \in Responses(ticker) : Submit(ticker, end_date, resp)

SpecSubmissions == InitSubmissions /\ [][NextSubmissions]_vars

\* What the submission c leaves on display when it is the first of a
\* session: what update_chart returns for it, or, when update_chart raises,
\* what the page load left.
AsFromIdle(c) ==
    LET loaded == update_chart(app, 0, Layout(app)["ticker-input"],
                               Layout(app)["start-date-picker"],
                               Layout(app)["end-date-picker"], NoResponse)
        first == update_chart(app, 1, c.ticker, c.start_date, c.end_date, c.resp)
        r == IF first.raised = None THEN first ELSE loaded
    IN  [LayoutOutputs(app) EXCEPT !["candlestick-chart"] = r.figure,
                                   !["chart-container"] = r.style]

\* C14 (as claimed): whatever submissions came before it, a submission that
\* the provider answers with a frame leaves the viewer showing what its own
\* ticker, dates and response give a viewer that was Idle.
C14_OutcomeOfOwnSubmissionOnly ==
    (app \in StockApps /\ pending = {} /\ props["submit-button"] >= 1
        /\ ~call.resp.raises) =>
        outputs = AsFromIdle(call)

----------------------------------------------------------------------------
(* Visibility of the candlestick container *)

\* A step of a candlestick session: an invocation of update_chart that
\* returns sets the container hidden exactly when its n_clicks is 0 or unset;
\* the click count does not decrease; a visible container stays visible.
VisibilityStep ==
    app \in StockApps =>
        /\ (lastCall' # lastCall /\ lastCall'.raised = None) =>
              (Container'.visibility = "hidden" <=> lastCall'.n_clicks \in {0, NoneInt})
        /\ props'["submit-button"] >= props["submit-button"]
        /\ Container.visibility = "visible" => Container'.visibility = "visible"

\* C15: update_chart returns a hidden container if and only if n_clicks is
\* zero or unset, and, the click count never decreasing, a container that has
\* become visible is never hidden again by a later invocation.
C15_VisibilityMonotone == [][VisibilityStep]_vars

\* The last click of a session has been answered with an error chart, the
\* container visible, after an invocation for every click before it.
C15_Witness ==
    /\ app \in StockApps
    /\ props["submit-button"] = MaxClicks
    /\ lastCall.n_clicks = MaxClicks
    /\ lastCall.raised = None
    /\ fetches = MaxClicks
    /\ Failed

----------------------------------------------------------------------------
(* The two candlestick variants side by side *)

\* The branch an invocation of update_chart ended in, with the field a
\* missing-column title names.
Branch(r) ==
    IF r.raised # None THEN [kind |-> "raised", field |-> {}]
    ELSE IF r.style.visibility = "hidden" THEN [kind |-> "hidden", field |-> {}]
    ELSE IF Len(r.figure.data) > 0 THEN [kind |-> "rendered", field |-> {}]
    ELSE IF Range(r.figure.layout.title) \cap EmptyResultMessages # {}
    THEN [kind |-> "empty-result", field |-> {}]
    ELSE [kind |-> "missing-column", field |-> NamedFields(r.figure.layout.title)]

\* The visibility an invocation returned (None when it raised).
VisibilityOf(r) == r.style.visibility

\* C16 (as claimed): on the same n_clicks, ticker, dates and provider
\* response, the update_chart of real_time_stock_chart.py and the one of
\* real_time_stock_chart2.py end in the same branch (hidden, empty-result,
\* missing-column naming the same field, rendered) and return the same
\* visibility.
C16_VariantsEquivalent ==
    (IsUpdateChartCall /\ Len(outs) >= 1 /\ ~call.resp.raises) =>
        LET r1 == update_chart1(call.n_clicks, call.ticker, call.start_date,
                                call.end_date, call.resp)
            r2 == update_chart2(call.n_clicks, call.ticker, call.start_date,
                                call.end_date, call.resp)
        IN  /\ outs[1] = (IF call.fn = "update_chart1" THEN r1 ELSE r2)
            /\ Branch(r1) = Branch(r2)
            /\ VisibilityOf(r1) = VisibilityOf(r2)

====
